---- MODULE Spec2Model ----
(***************************************************************************)
(* The Provider Directory View (ClientListPage): the in-memory provider    *)
(* collection, the search filter, the confirmation-gated delete mutation   *)
(* and the per-row refresh mutation.                                        *)
(*                                                                         *)
(* Strings are sequences of one-character strings, so that toLowerCase and *)
(* includes are computed character by character.  A nullable string is     *)
(* None (null) or Some(s).                                                  *)
(***************************************************************************)
EXTENDS Naturals, Sequences, FiniteSets

VARIABLES
    searchQuery,        \* useState("")                the search box's text
    providers,          \* useState(sampleProviders)   the provider collection
    deleteDialogOpen,   \* useState(false)             the confirmation dialog's flag
    selectedProviderId, \* useState(null)              the pending delete target
    fnProviders,        \* the `providers` value closed over by the installed mutationFn
    deleteStatus,       \* deleteProviderMutation's status: idle, pending, success, error
    deleteRuns,         \* delete mutations in flight, oldest first: [id, stage]
    refreshRuns,        \* number of refresh mutations in flight
    toast,              \* the notification surfaced last
    beganWith,          \* history: the collection when the latest delete mutation began
    deletedIds,         \* history: ids whose delete mutation completed successfully
    lastRequested       \* history: the id passed to the most recent handleDelete

vars == <<searchQuery, providers, deleteDialogOpen, selectedProviderId, fnProviders,
          deleteStatus, deleteRuns, refreshRuns, toast, beganWith, deletedIds,
          lastRequested>>

----------------------------------------------------------------------------
(* Nullable values. *)

None == <<>>

Some(s) == <<s>>

NullId == "null"

----------------------------------------------------------------------------
(* String.prototype.toLowerCase and String.prototype.includes. *)

UpperCase == <<"A", "B", "C", "D", "E", "F", "G", "H", "I", "J", "K", "L", "M", "N", "O", "P", "Q", "R", "S", "T", "U", "V", "W", "X", "Y", "Z">>

LowerCase == <<"a", "b", "c", "d", "e", "f", "g", "h", "i", "j", "k", "l", "m", "n", "o", "p", "q", "r", "s", "t", "u", "v", "w", "x", "y", "z">>

UpperLetters == {UpperCase[i] : i \in DOMAIN UpperCase}

LowerOf == [c \in UpperLetters |-> LowerCase[CHOOSE i \in DOMAIN UpperCase : UpperCase[i] = c]]

LowerChar(c) == IF c \in UpperLetters THEN LowerOf[c] ELSE c

ToLowerCase(s) == [i \in DOMAIN s |-> LowerChar(s[i])]

Includes(s, sub) ==
    \E i \in 0 .. (Len(s) - Len(sub)) :
        \A j \in DOMAIN sub : s[i + j] = sub[j]

----------------------------------------------------------------------------
(* The sample data the collection starts from. *)

Sample1 ==
    [id |-> "1",
     providerName |-> <<"K", "a", "r", "l", "e", "i", "g", "h", " ", "M", "c", "d", "a", "n", "i", "e", "l">>,
     ehrGroupId |-> Some(<<"V", "O", "L", "P", "-", "2", "0", "2", "4">>),
     contactEmail |-> <<"j", "y", "d", "u", "t", "a", "x", "@", "m", "a", "i", "l", "i", "n", "a", "t", "o", "r", ".", "c", "o", "m">>,
     contactPhone |-> <<"2", "3", "2", "3", "2", "6", "7", "7", "7", "0">>]

Sample2 ==
    [id |-> "2",
     providerName |-> <<"N", "o", "r", "t", "h", "w", "e", "s", "t", " ", "H", "e", "a", "l", "t", "h", " ", "P", "a", "r", "t", "n", "e", "r", "s">>,
     ehrGroupId |-> Some(<<"N", "W", "H", "P", "-", "2", "0", "2", "4">>),
     contactEmail |-> <<"a", "d", "m", "i", "n", "@", "n", "o", "r", "t", "h", "w", "e", "s", "t", "h", "e", "a", "l", "t", "h", ".", "o", "r", "g">>,
     contactPhone |-> <<"5", "0", "3", "5", "5", "5", "9", "8", "7", "6">>]

Sample3 ==
    [id |-> "3",
     providerName |-> <<"E", "a", "s", "t", "s", "i", "d", "e", " ", "M", "e", "d", "i", "c", "a", "l", " ", "G", "r", "o", "u", "p">>,
     ehrGroupId |-> Some(<<"E", "M", "G", "-", "7", "4", "2">>),
     contactEmail |-> <<"c", "o", "n", "t", "a", "c", "t", "@", "e", "a", "s", "t", "s", "i", "d", "e", "m", "e", "d", ".", "c", "o", "m">>,
     contactPhone |-> <<"2", "0", "6", "5", "5", "5", "1", "2", "3", "4">>]

Sample4 ==
    [id |-> "4",
     providerName |-> <<"V", "a", "l", "l", "e", "y", " ", "C", "a", "r", "e", " ", "S", "p", "e", "c", "i", "a", "l", "i", "s", "t", "s">>,
     ehrGroupId |-> Some(<<"V", "C", "S", "-", "2", "0", "2", "3", "-", "0", "9">>),
     contactEmail |-> <<"i", "n", "f", "o", "@", "v", "a", "l", "l", "e", "y", "c", "a", "r", "e", ".", "n", "e", "t">>,
     contactPhone |-> <<"4", "8", "0", "5", "5", "5", "7", "6", "5", "4">>]

sampleProviders == <<Sample1, Sample2, Sample3, Sample4>>

----------------------------------------------------------------------------
(* The filter: providers.filter(provider => ...) with the lower-cased       *)
(* search term.  A null or empty ehrGroupId is falsy and skips its clause.  *)

MatchesSearch(provider, query) ==
    LET searchTerm == ToLowerCase(query)
    IN  \/ Includes(ToLowerCase(provider.providerName), searchTerm)
        \/ /\ provider.ehrGroupId # None
           /\ provider.ehrGroupId[1] # <<>>
           /\ Includes(ToLowerCase(provider.ehrGroupId[1]), searchTerm)
        \/ Includes(ToLowerCase(provider.contactEmail), searchTerm)
        \/ Includes(provider.contactPhone, searchTerm)

RECURSIVE Reverse(_)
Reverse(seq) == IF seq = <<>> THEN <<>> ELSE Append(Reverse(Tail(seq)), Head(seq))

FilterProvidersNewestFirst(ps, query) ==
    LET Keep(p) == MatchesSearch(p, query)
    IN  Reverse(SelectSeq(ps, Keep))

FilterProviders(ps, query) ==
    LET Keep(p) == MatchesSearch(p, query)
    IN  SelectSeq(ps, Keep)

filteredProviders == FilterProviders(providers, searchQuery)

RowIds == {filteredProviders[i].id : i \in DOMAIN filteredProviders}

----------------------------------------------------------------------------
(* The delete mutationFn's new collection: providers.filter(p => p.id !== id). *)

RemoveByIdInverted(ps, id) ==
    LET Keep(p) == p.id = id
    IN  SelectSeq(ps, Keep)

RemoveById(ps, id) ==
    LET Keep(p) == p.id # id
    IN  SelectSeq(ps, Keep)

----------------------------------------------------------------------------
(* Notifications: toast({title, description, variant}).  A description     *)
(* built by a template literal is the sequence of its pieces.             *)

NoToast == [title |-> "", description |-> <<>>, variant |-> "default"]

DeleteSuccessToast ==
    [title |-> "Success",
     description |-> <<"Healthcare provider has been deleted successfully.">>,
     variant |-> "default"]

DeleteErrorToast(message) ==
    [title |-> "Error",
     description |-> <<"Failed to delete healthcare provider: ", message>>,
     variant |-> "destructive"]

RefreshSuccessToast ==
    [title |-> "Success",
     description |-> <<"Client data has been refreshed.">>,
     variant |-> "default"]

RefreshErrorToast(message) ==
    [title |-> "Error",
     description |-> <<"Failed to refresh data: ", message>>,
     variant |-> "destructive"]

----------------------------------------------------------------------------
(* Inputs. *)

MaxRefreshRuns == 1

SampleQueries == {<<>>, <<"n", "o", "r", "t", "h", "w", "e", "s", "t">>, <<"2", "0", "2", "4">>}

ErrorMessages == {"Network Error", "Request failed"}

----------------------------------------------------------------------------
(* Rendering.  The component body runs again after every state change and  *)
(* passes useMutation a new options object, so the mutationFn the observer *)
(* holds closes over the collection of the latest render.                  *)

CaptureOnce(rendered, installed) == installed

Capture(rendered, installed) == rendered

TruthyAlways(id) == TRUE

Truthy(id) == id # NullId /\ id # ""

RemoveAt(runs, i) == SubSeq(runs, 1, i - 1) \o SubSeq(runs, i + 1, Len(runs))

Init ==
    /\ searchQuery = <<>>
    /\ providers = sampleProviders
    /\ deleteDialogOpen = FALSE
    /\ selectedProviderId = NullId
    /\ fnProviders = sampleProviders
    /\ deleteStatus = "idle"
    /\ deleteRuns = <<>>
    /\ refreshRuns = 0
    /\ toast = NoToast
    /\ beganWith = sampleProviders
    /\ deletedIds = {}
    /\ lastRequested = NullId

(* onChange={(e) => setSearchQuery(e.target.value)} *)
setSearchQuery(value) ==
    /\ searchQuery' = value
    /\ fnProviders' = Capture(providers, fnProviders)
    /\ UNCHANGED <<providers, deleteDialogOpen, selectedProviderId, deleteStatus,
                   deleteRuns, refreshRuns, toast, beganWith, deletedIds,
                   lastRequested>>

(* handleDelete(provider.id), called from a row of the filtered table *)
handleDelete(id) ==
    /\ selectedProviderId' = id
    /\ deleteDialogOpen' = TRUE
    /\ lastRequested' = id
    /\ fnProviders' = Capture(providers, fnProviders)
    /\ UNCHANGED <<searchQuery, providers, deleteStatus, deleteRuns, refreshRuns,
                   toast, beganWith, deletedIds>>

CancelDeleteRemovesTarget ==
    /\ deleteDialogOpen' = FALSE
    /\ providers' = RemoveById(providers, selectedProviderId)
    /\ fnProviders' = Capture(providers', fnProviders)
    /\ UNCHANGED <<searchQuery, selectedProviderId, deleteStatus, deleteRuns,
                   refreshRuns, toast, beganWith, deletedIds, lastRequested>>

CancelDeleteAbortsMutation ==
    /\ deleteDialogOpen' = FALSE
    /\ deleteRuns' = <<>>
    /\ deleteStatus' = IF deleteStatus = "pending" THEN "idle" ELSE deleteStatus
    /\ fnProviders' = Capture(providers, fnProviders)
    /\ UNCHANGED <<searchQuery, providers, selectedProviderId, refreshRuns, toast,
                   beganWith, deletedIds, lastRequested>>

(* The Cancel button: setDeleteDialogOpen(false) *)
CancelDelete ==
    /\ deleteDialogOpen' = FALSE
    /\ fnProviders' = Capture(providers, fnProviders)
    /\ UNCHANGED <<searchQuery, providers, selectedProviderId, deleteStatus,
                   deleteRuns, refreshRuns, toast, beganWith, deletedIds,
                   lastRequested>>

(* <Dialog open={deleteDialogOpen} onOpenChange={setDeleteDialogOpen}>: no *)
(* trigger is rendered, so the dialog reports only its dismissal.          *)
DialogOnOpenChange(open) ==
    /\ deleteDialogOpen
    /\ deleteDialogOpen' = open
    /\ fnProviders' = Capture(providers, fnProviders)
    /\ UNCHANGED <<searchQuery, providers, selectedProviderId, deleteStatus,
                   deleteRuns, refreshRuns, toast, beganWith, deletedIds,
                   lastRequested>>

DeleteButtonAlwaysEnabled == TRUE

(* disabled={deleteProviderMutation.isPending} *)
DeleteButtonEnabled == deleteStatus # "pending"

(* confirmDelete: if (selectedProviderId) deleteProviderMutation.mutate(...) *)
confirmDelete ==
    /\ DeleteButtonEnabled
    /\ IF Truthy(selectedProviderId)
       THEN /\ deleteStatus' = "pending"
            /\ deleteRuns' = Append(deleteRuns, [id |-> selectedProviderId, stage |-> "started"])
            /\ beganWith' = providers
       ELSE UNCHANGED <<deleteStatus, deleteRuns, beganWith>>
    /\ fnProviders' = Capture(providers, fnProviders)
    /\ UNCHANGED <<searchQuery, providers, deleteDialogOpen, selectedProviderId,
                   refreshRuns, toast, deletedIds, lastRequested>>

(* mutationFn: setProviders(providers.filter(p => p.id !== id)) *)
DeleteMutationFn(i) ==
    /\ i \in DOMAIN deleteRuns
    /\ deleteRuns[i].stage = "started"
    /\ providers' = RemoveById(fnProviders, deleteRuns[i].id)
    /\ deleteRuns' = [deleteRuns EXCEPT ![i].stage = "applied"]
    /\ fnProviders' = Capture(providers', fnProviders)
    /\ UNCHANGED <<searchQuery, deleteDialogOpen, selectedProviderId, deleteStatus,
                   refreshRuns, toast, beganWith, deletedIds, lastRequested>>

(* onSuccess: toast(...); setDeleteDialogOpen(false) *)
DeleteOnSuccess(i) ==
    /\ i \in DOMAIN deleteRuns
    /\ deleteRuns[i].stage = "applied"
    /\ toast' = DeleteSuccessToast
    /\ deleteDialogOpen' = FALSE
    /\ deleteStatus' = IF i = Len(deleteRuns) THEN "success" ELSE deleteStatus
    /\ deleteRuns' = RemoveAt(deleteRuns, i)
    /\ deletedIds' = deletedIds \cup {deleteRuns[i].id}
    /\ fnProviders' = Capture(providers, fnProviders)
    /\ UNCHANGED <<searchQuery, providers, selectedProviderId, refreshRuns,
                   beganWith, lastRequested>>

DeleteOnErrorClosesDialog(i, message) ==
    /\ i \in DOMAIN deleteRuns
    /\ deleteRuns[i].stage = "started"
    /\ toast' = DeleteErrorToast(message)
    /\ deleteDialogOpen' = FALSE
    /\ deleteStatus' = IF i = Len(deleteRuns) THEN "error" ELSE deleteStatus
    /\ deleteRuns' = RemoveAt(deleteRuns, i)
    /\ fnProviders' = Capture(providers, fnProviders)
    /\ UNCHANGED <<searchQuery, providers, selectedProviderId, refreshRuns,
                   beganWith, deletedIds, lastRequested>>

(* onError: toast(...); the mutationFn's only statement raised, so no      *)
(* state update was made                                                    *)
DeleteOnError(i, message) ==
    /\ i \in DOMAIN deleteRuns
    /\ deleteRuns[i].stage = "started"
    /\ toast' = DeleteErrorToast(message)
    /\ deleteStatus' = IF i = Len(deleteRuns) THEN "error" ELSE deleteStatus
    /\ deleteRuns' = RemoveAt(deleteRuns, i)
    /\ fnProviders' = Capture(providers, fnProviders)
    /\ UNCHANGED <<searchQuery, providers, deleteDialogOpen, selectedProviderId,
                   refreshRuns, beganWith, deletedIds, lastRequested>>

(* handleRefresh: refreshProviderMutation.mutate(); the id is not used *)
handleRefresh(id) ==
    /\ refreshRuns < MaxRefreshRuns
    /\ refreshRuns' = refreshRuns + 1
    /\ fnProviders' = Capture(providers, fnProviders)
    /\ UNCHANGED <<searchQuery, providers, deleteDialogOpen, selectedProviderId,
                   deleteStatus, deleteRuns, toast, beganWith, deletedIds,
                   lastRequested>>

RefreshOnSuccessRefetches ==
    /\ refreshRuns > 0
    /\ refreshRuns' = refreshRuns - 1
    /\ toast' = RefreshSuccessToast
    /\ providers' = sampleProviders
    /\ fnProviders' = Capture(providers', fnProviders)
    /\ UNCHANGED <<searchQuery, deleteDialogOpen, selectedProviderId, deleteStatus,
                   deleteRuns, beganWith, deletedIds, lastRequested>>

(* refreshProviderMutation.onSuccess *)
RefreshOnSuccess ==
    /\ refreshRuns > 0
    /\ refreshRuns' = refreshRuns - 1
    /\ toast' = RefreshSuccessToast
    /\ fnProviders' = Capture(providers, fnProviders)
    /\ UNCHANGED <<searchQuery, providers, deleteDialogOpen, selectedProviderId,
                   deleteStatus, deleteRuns, beganWith, deletedIds, lastRequested>>

(* refreshProviderMutation.onError *)
RefreshOnError(message) ==
    /\ refreshRuns > 0
    /\ refreshRuns' = refreshRuns - 1
    /\ toast' = RefreshErrorToast(message)
    /\ fnProviders' = Capture(providers, fnProviders)
    /\ UNCHANGED <<searchQuery, providers, deleteDialogOpen, selectedProviderId,
                   deleteStatus, deleteRuns, beganWith, deletedIds, lastRequested>>

Next ==
    \/ \E value \in SampleQueries : setSearchQuery(value)
    \/ \E id \in RowIds : handleDelete(id)
    \/ CancelDelete
    \/ DialogOnOpenChange(FALSE)
    \/ confirmDelete
    \/ \E i \in DOMAIN deleteRuns : DeleteMutationFn(i)
    \/ \E i \in DOMAIN deleteRuns : DeleteOnSuccess(i)
    \/ \E i \in DOMAIN deleteRuns, message \in ErrorMessages : DeleteOnError(i, message)
    \/ \E id \in RowIds : handleRefresh(id)
    \/ RefreshOnSuccess
    \/ \E message \in ErrorMessages : RefreshOnError(message)

Spec == Init /\ [][Next]_vars

(* A mutation that was begun runs on the promise job queue: its next step  *)
(* (the mutationFn, then onSuccess or onError) is taken once it is due.    *)
DeleteStep ==
    \E i \in DOMAIN deleteRuns :
        \/ DeleteMutationFn(i)
        \/ DeleteOnSuccess(i)
        \/ \E message \in ErrorMessages : DeleteOnError(i, message)

LiveSpec == Spec /\ WF_vars(DeleteStep)

----------------------------------------------------------------------------
(* The filter on arbitrary collections: the collection is drawn from small *)
(* providers whose fields mix cases, and the search box is typed into.    *)

MaxProviders == 2

TestIds == <<"1", "2", "3", "4">>

TestNames == {<<"b", "A">>, <<"d">>}

TestGroups == {None, Some(<<>>), Some(<<"G", "a">>)}

TestEmails == {<<"c", "@">>, <<"e">>}

TestPhones == {<<"1">>, <<"1", "A">>, <<"1", "a">>}

TestQueries == {<<>>, <<"a">>, <<"A">>, <<"C">>, <<"g">>, <<"1">>}

TestFields ==
    [providerName : TestNames, ehrGroupId : TestGroups,
     contactEmail : TestEmails, contactPhone : TestPhones]

TestProvider(i, fields) ==
    [id |-> TestIds[i],
     providerName |-> fields.providerName,
     ehrGroupId |-> fields.ehrGroupId,
     contactEmail |-> fields.contactEmail,
     contactPhone |-> fields.contactPhone]

FilterInit ==
    \E n \in 0 .. MaxProviders :
        \E f \in [1 .. n -> TestFields] :
            /\ searchQuery = <<>>
            /\ providers = [i \in 1 .. n |-> TestProvider(i, f[i])]
            /\ deleteDialogOpen = FALSE
            /\ selectedProviderId = NullId
            /\ fnProviders = providers
            /\ deleteStatus = "idle"
            /\ deleteRuns = <<>>
            /\ refreshRuns = 0
            /\ toast = NoToast
            /\ beganWith = providers
            /\ deletedIds = {}
            /\ lastRequested = NullId

FilterNext == \E value \in TestQueries : setSearchQuery(value)

FilterSpec == FilterInit /\ [][FilterNext]_vars

----------------------------------------------------------------------------
(* The match as stated, with the phone compared to the search string as typed. *)

StatedMatch(provider, query) ==
    \/ Includes(ToLowerCase(provider.providerName), ToLowerCase(query))
    \/ /\ provider.ehrGroupId # None
       /\ Includes(ToLowerCase(provider.ehrGroupId[1]), ToLowerCase(query))
    \/ Includes(ToLowerCase(provider.contactEmail), ToLowerCase(query))
    \/ Includes(provider.contactPhone, query)

----------------------------------------------------------------------------
(* C1: the filter keeps a provider iff the search string is a substring of *)
(* providerName, of a non-null ehrGroupId or of contactEmail, each compared *)
(* case-insensitively, or of contactPhone compared exactly with the search *)
(* string as typed; the empty search string keeps every provider.          *)

C1_FilterKeepsStatedMatches ==
    /\ \A i \in DOMAIN providers :
           StatedMatch(providers[i], searchQuery)
               <=> \E j \in DOMAIN filteredProviders : filteredProviders[j] = providers[i]
    /\ searchQuery = <<>> => filteredProviders = providers

----------------------------------------------------------------------------
(* Subsequence: sub is full with some elements left out. *)

RECURSIVE IsSubsequence(_, _)
IsSubsequence(sub, full) ==
    IF sub = <<>> THEN TRUE
    ELSE IF full = <<>> THEN FALSE
    ELSE IF Head(sub) = Head(full) THEN IsSubsequence(Tail(sub), Tail(full))
    ELSE IsSubsequence(sub, Tail(full))

----------------------------------------------------------------------------
(* C7: the filtered result is a subsequence of the collection: every       *)
(* element comes from the collection, none is duplicated or invented, and  *)
(* the original relative order is kept.                                    *)

C7_FilteredIsSubsequence == IsSubsequence(filteredProviders, providers)

C7_Witness ==
    /\ Len(providers) = 2
    /\ searchQuery # <<>>
    /\ filteredProviders = <<providers[2]>>

----------------------------------------------------------------------------
(* Vocabulary of the delete-flow properties. *)

HasId(ps, id) == \E i \in DOMAIN ps : ps[i].id = id

RECURSIVE WithoutId(_, _)
WithoutId(ps, id) ==
    IF ps = <<>> THEN <<>>
    ELSE IF Head(ps).id = id THEN WithoutId(Tail(ps), id)
    ELSE <<Head(ps)>> \o WithoutId(Tail(ps), id)

DeleteSucceeds == deleteStatus = "pending" /\ deleteStatus' = "success"

DeleteFails == deleteStatus = "pending" /\ deleteStatus' = "error"

SampleIds == {sampleProviders[i].id : i \in DOMAIN sampleProviders}

UserAction ==
    \/ \E value \in SampleQueries : setSearchQuery(value)
    \/ \E id \in SampleIds : handleDelete(id)
    \/ CancelDelete
    \/ DialogOnOpenChange(FALSE)
    \/ confirmDelete
    \/ \E id \in SampleIds : handleRefresh(id)

----------------------------------------------------------------------------
(* C2: when a delete mutation for id X succeeds, the collection is the one *)
(* the mutation began with, minus every provider whose id is X, the others *)
(* in their original order; an id no provider has leaves the collection    *)
(* unchanged; and the confirmation dialog is closed.                       *)

C2_DeleteRemovesExactlyTarget ==
    [][DeleteSucceeds =>
          LET X == Head(deleteRuns).id
          IN  /\ providers' = WithoutId(beganWith, X)
              /\ ~HasId(beganWith, X) => providers' = beganWith
              /\ deleteDialogOpen' = FALSE]_vars

C2_Witness ==
    /\ deleteStatus = "success"
    /\ deletedIds = {"2"}
    /\ beganWith = <<Sample1, Sample3, Sample4>>
    /\ providers = <<Sample1, Sample3, Sample4>>
    /\ ~deleteDialogOpen

----------------------------------------------------------------------------
(* C3: when a delete mutation fails, the collection is as it was when      *)
(* confirmDelete was invoked, the dialog flag is not touched (the dialog   *)
(* stays open unless the user closed it), and an error notification with   *)
(* the failure's message is surfaced.                                      *)

----------------------------------------------------------------------------
(* C4: the dialog opens only by a handleDelete call; cancel closes it and  *)
(* leaves the collection unchanged; and as long as no delete mutation has  *)
(* been started the collection equals its initial value.                   *)

C4_DialogOnlyByRequest ==
    /\ [](deleteStatus = "idle" => providers = sampleProviders)
    /\ [][(~deleteDialogOpen /\ deleteDialogOpen') => \E id \in SampleIds : handleDelete(id)]_vars
    /\ [][CancelDelete => (~deleteDialogOpen' /\ providers' = providers)]_vars

C4_Witness ==
    /\ ~deleteDialogOpen
    /\ selectedProviderId = "3"
    /\ deleteStatus = "idle"
    /\ searchQuery # <<>>
    /\ toast = RefreshSuccessToast
    /\ providers = sampleProviders

----------------------------------------------------------------------------
(* C5: confirmDelete does nothing while no target is set; otherwise the    *)
(* mutation it begins has the one recorded target, which is the id passed  *)
(* to the most recent handleDelete.                                        *)

C5_ConfirmUsesLatestTarget ==
    /\ [](selectedProviderId = lastRequested)
    /\ [](selectedProviderId = NullId => (deleteStatus = "idle" /\ deleteRuns = <<>>))
    /\ [][(confirmDelete /\ selectedProviderId = NullId) => UNCHANGED vars]_vars
    /\ [][Len(deleteRuns') > Len(deleteRuns) =>
             /\ lastRequested # NullId
             /\ deleteRuns' = Append(deleteRuns, [id |-> lastRequested, stage |-> "started"])]_vars

C5_Witness ==
    /\ Len(deleteRuns) = 1
    /\ deleteRuns[1].id = "3"
    /\ lastRequested = "3"
    /\ deleteDialogOpen
    /\ deletedIds = {"1"}

----------------------------------------------------------------------------
(* C6: a refresh, from its start to its completion by success or failure,  *)
(* leaves the collection, the dialog flag and the pending target as they   *)
(* are, and its completion surfaces a notification.                        *)

C6_RefreshFrame ==
    [][refreshRuns' # refreshRuns =>
          /\ UNCHANGED <<providers, deleteDialogOpen, selectedProviderId>>
          /\ refreshRuns' < refreshRuns =>
                \/ toast' = RefreshSuccessToast
                \/ \E message \in ErrorMessages : toast' = RefreshErrorToast(message)]_vars

C6_Witness ==
    /\ refreshRuns = 0
    /\ toast = RefreshErrorToast("Request failed")
    /\ deleteDialogOpen
    /\ selectedProviderId = "4"
    /\ providers = <<Sample2, Sample4>>

----------------------------------------------------------------------------
(* C8: at most one delete mutation is in flight, also when handleDelete is *)
(* called for another id while one is pending.                             *)

C8_OneDeleteInFlight == Len(deleteRuns) <= 1

C8_Witness ==
    /\ Len(deleteRuns) = 1
    /\ deleteDialogOpen
    /\ selectedProviderId # deleteRuns[1].id
    /\ HasId(providers, selectedProviderId)

----------------------------------------------------------------------------
(* The next step of a delete mutation towards success. *)

DeleteProgress ==
    \E i \in DOMAIN deleteRuns : DeleteMutationFn(i) \/ DeleteOnSuccess(i)

----------------------------------------------------------------------------
(* C9: a confirmed delete cannot be aborted: no user action removes or     *)
(* alters a mutation in flight, a mutation in flight can always take its   *)
(* next step and does complete whatever the user does meanwhile, and when  *)
(* it succeeds no provider with its id is left.                            *)

C9_NoAbortOnceConfirmed ==
    /\ [](deleteRuns # <<>> => ENABLED DeleteProgress)
    /\ [][UserAction =>
             /\ Len(deleteRuns') >= Len(deleteRuns)
             /\ SubSeq(deleteRuns', 1, Len(deleteRuns)) = deleteRuns]_vars
    /\ [][DeleteSucceeds => ~HasId(providers', Head(deleteRuns).id)]_vars
    /\ (deleteRuns # <<>>) ~> (deleteRuns = <<>>)

C9_Witness ==
    /\ Len(deleteRuns) = 1
    /\ deleteRuns[1].stage = "started"
    /\ ~deleteDialogOpen
    /\ selectedProviderId # deleteRuns[1].id
    /\ searchQuery # <<>>
    /\ refreshRuns > 0

----------------------------------------------------------------------------
(* Ids a delete mutation in flight has already removed. *)

AppliedIds ==
    {deleteRuns[i].id : i \in {j \in DOMAIN deleteRuns : deleteRuns[j].stage = "applied"}}

----------------------------------------------------------------------------
(* C10: no successful delete is lost: the collection is always the initial *)
(* collection without the ids deleted successfully (and without the id a   *)
(* mutation in flight has already removed), in the original order.         *)

C10_NoDeleteLost ==
    LET Kept(p) == p.id \notin (deletedIds \cup AppliedIds)
    IN  providers = SelectSeq(sampleProviders, Kept)

C10_Witness ==
    /\ deletedIds = {"1", "3"}
    /\ deleteRuns = <<>>
    /\ deleteStatus = "success"
    /\ searchQuery # <<>>

====
